---- MODULE Spec2Model ----
(***************************************************************************)
(* Model of the ign-template crate (src/rust-v1/src/lib.rs).               *)
(*                                                                         *)
(* The crate is a template: lib.rs carries the token                       *)
(* @ign-var:PROJECT_NAME@ in the literal returned by hello(), in the       *)
(* literal test_hello compares against, and in the doc example.  The       *)
(* template is instantiated (or left as it is) and built once; afterwards  *)
(* any number of threads call hello().  Strings are sequences of           *)
(* one-character strings, so that substitution, prefixes and lengths are   *)
(* computed and not assumed.                                               *)
(***************************************************************************)
EXTENDS Naturals, Sequences, FiniteSets

VARIABLES
    phase,        \* "template" (lib.rs as shipped) or "built" (crate compiled)
    file,         \* the string literals of lib.rs: hello, test, doc, usePath
    projectName,  \* the text standing where the PROJECT_NAME token was put
    pc,           \* per thread: "idle", "called" (inside hello), "returned"
    result,       \* per thread: the caller's variable receiving hello()'s value
    shared,       \* a variable the callers share and write outside hello
    started,      \* number of calls of hello() started so far
    returned,     \* history: every value some call of hello() has returned
    testStatus,   \* outcome of tests::test_hello
    docStatus     \* outcome of the doc example of hello

vars == <<phase, file, projectName, pc, result, shared, started, returned,
          testStatus, docStatus>>

----------------------------------------------------------------------------
(* Bounds of the model *)

NThreads == 2
MaxNameLen == 2
MaxCalls == 3
MaxVal == 1

Threads == 1..NThreads
NameChars == {"a", "!"}
IdentChars == {"a"}
Names == UNION {[1..n -> NameChars] : n \in 0..MaxNameLen}
\* the content of a variable no call has assigned yet; no string equals it
None == <<"none">>

----------------------------------------------------------------------------
(* The text of lib.rs *)

Token ==
    <<"@","i","g","n","-","v","a","r",":",
      "P","R","O","J","E","C","T","_","N","A","M","E","@">>

Prefix == <<"H","e","l","l","o"," ","f","r","o","m"," ">>

Bang == <<"!">>

\* a literal that lost its closing "!"
HelloLiteralNoBang == Prefix \o Token

\* a literal that is nothing but the token
HelloLiteralBare == Token

\* line 14: "Hello from @ign-var:PROJECT_NAME@!"
HelloLiteral == Prefix \o Token \o Bang

\* a test literal that greets with a different punctuation
TestLiteralOther == Prefix \o Token \o <<".">>

\* line 23: the right-hand side of assert_eq! in test_hello
TestLiteral == Prefix \o Token \o Bang

\* line 11: the right-hand side of assert_eq! in the doc example
DocLiteral == Prefix \o Token \o Bang

\* line 10: the crate path of `use @ign-var:PROJECT_NAME@::hello;`
DocUsePath == Token

----------------------------------------------------------------------------
(* Template instantiation: every occurrence of the token is replaced *)

IsPrefixOf(p, s) == Len(p) <= Len(s) /\ SubSeq(s, 1, Len(p)) = p

RECURSIVE ReplaceAll(_, _, _)
ReplaceAll(text, tok, rep) ==
    IF text = <<>> THEN <<>>
    ELSE IF IsPrefixOf(tok, text)
         THEN rep \o ReplaceAll(SubSeq(text, Len(tok) + 1, Len(text)), tok, rep)
         ELSE <<Head(text)>> \o ReplaceAll(Tail(text), tok, rep)

SubstituteFile(f, name) ==
    [k \in DOMAIN f |-> ReplaceAll(f[k], Token, name)]

\* a crate path the compiler accepts in a `use` item
IsCrateIdent(s) == s # <<>> /\ \A i \in 1..Len(s) : s[i] \in IdentChars

----------------------------------------------------------------------------
(* hello() *)

\* a hello() that consults mutable state
helloReadsShared == IF shared = 0 THEN file.hello ELSE file.hello \o <<"?">>

\* the value of `pub fn hello() -> &'static str`: the compiled literal
hello == file.hello

----------------------------------------------------------------------------

Init ==
    /\ phase = "template"
    /\ file = [hello |-> HelloLiteral, test |-> TestLiteral,
               doc |-> DocLiteral, usePath |-> DocUsePath]
    /\ projectName = Token
    /\ pc = [t \in Threads |-> "idle"]
    /\ result = [t \in Threads |-> None]
    /\ shared = 0
    /\ started = 0
    /\ returned = {}
    /\ testStatus = "notrun"
    /\ docStatus = "notrun"

\* the template is instantiated with a project name and built
IgnSubstitute(name) ==
    /\ phase = "template"
    /\ file' = SubstituteFile(file, name)
    /\ projectName' = name
    /\ phase' = "built"
    /\ UNCHANGED <<pc, result, shared, started, returned, testStatus, docStatus>>

\* the template is built as it is, the token left unresolved
BuildUnresolved ==
    /\ phase = "template"
    /\ phase' = "built"
    /\ UNCHANGED <<file, projectName, pc, result, shared, started, returned,
                   testStatus, docStatus>>

\* thread t enters hello()
Call(t) ==
    /\ phase = "built"
    /\ pc[t] = "idle"
    /\ started < MaxCalls
    /\ pc' = [pc EXCEPT ![t] = "called"]
    /\ started' = started + 1
    /\ UNCHANGED <<phase, file, projectName, result, shared, returned,
                   testStatus, docStatus>>

\* a hello() that takes a lock no other caller may hold
ReturnLocked(t) ==
    /\ pc[t] = "called"
    /\ \A u \in Threads \ {t} : pc[u] # "called"
    /\ pc' = [pc EXCEPT ![t] = "returned"]
    /\ result' = [result EXCEPT ![t] = hello]
    /\ returned' = returned \cup {hello}
    /\ UNCHANGED <<phase, file, projectName, shared, started,
                   testStatus, docStatus>>

\* a hello() that counts its calls in the shared variable
ReturnCounting(t) ==
    /\ pc[t] = "called"
    /\ pc' = [pc EXCEPT ![t] = "returned"]
    /\ result' = [result EXCEPT ![t] = hello]
    /\ returned' = returned \cup {hello}
    /\ shared' = (shared + 1) % (MaxVal + 1)
    /\ UNCHANGED <<phase, file, projectName, started, testStatus, docStatus>>

\* a hello() that panics on a greeting without a name
ReturnPanics(t) ==
    /\ pc[t] = "called"
    /\ IF projectName = <<>>
       THEN /\ pc' = [pc EXCEPT ![t] = "panicked"]
            /\ UNCHANGED <<result, returned>>
       ELSE /\ pc' = [pc EXCEPT ![t] = "returned"]
            /\ result' = [result EXCEPT ![t] = hello]
            /\ returned' = returned \cup {hello}
    /\ UNCHANGED <<phase, file, projectName, shared, started,
                   testStatus, docStatus>>

\* thread t returns from hello(): the body is the literal, nothing else
Return(t) ==
    /\ pc[t] = "called"
    /\ pc' = [pc EXCEPT ![t] = "returned"]
    /\ result' = [result EXCEPT ![t] = hello]
    /\ returned' = returned \cup {hello}
    /\ UNCHANGED <<phase, file, projectName, shared, started,
                   testStatus, docStatus>>

\* the caller goes on with its own code, keeping the value it received
Resume(t) ==
    /\ pc[t] = "returned"
    /\ pc' = [pc EXCEPT ![t] = "idle"]
    /\ UNCHANGED <<phase, file, projectName, result, shared, started, returned,
                   testStatus, docStatus>>

\* a thread that is not inside hello() writes the shared variable
WriteShared(t, v) ==
    /\ phase = "built"
    /\ pc[t] # "called"
    /\ v # shared
    /\ shared' = v
    /\ UNCHANGED <<phase, file, projectName, pc, result, started, returned,
                   testStatus, docStatus>>

\* tests::test_hello: assert_eq!(hello(), "Hello from ...!")
test_hello ==
    /\ phase = "built"
    /\ testStatus = "notrun"
    /\ testStatus' = IF hello = file.test THEN "passed" ELSE "failed"
    /\ UNCHANGED <<phase, file, projectName, pc, result, shared, started,
                   returned, docStatus>>

\* the doc example: use <crate>::hello; assert_eq!(hello(), "Hello from ...!")
doc_example ==
    /\ phase = "built"
    /\ docStatus = "notrun"
    /\ docStatus' = IF ~IsCrateIdent(file.usePath) THEN "compile_error"
                    ELSE IF hello = file.doc THEN "passed" ELSE "failed"
    /\ UNCHANGED <<phase, file, projectName, pc, result, shared, started,
                   returned, testStatus>>

Next ==
    \/ \E name \in Names : IgnSubstitute(name)
    \/ BuildUnresolved
    \/ \E t \in Threads : Call(t)
    \/ \E t \in Threads : Return(t)
    \/ \E t \in Threads : Resume(t)
    \/ \E t \in Threads, v \in 0..MaxVal : WriteShared(t, v)
    \/ test_hello
    \/ doc_example

Spec == Init /\ [][Next]_vars

----------------------------------------------------------------------------
(* Properties *)

\* C1: a call of hello() returns exactly "Hello from <project>!", where
\* <project> is the text put in place of the PROJECT_NAME token; the value
\* equals, character for character, the literal test_hello and the doc
\* example compare it against.
C1_ExactGreeting ==
    \A t \in Threads :
        pc[t] = "returned" =>
            /\ result[t] = Prefix \o projectName \o Bang
            /\ result[t] = file.test
            /\ result[t] = file.doc

C1_Witness ==
    \E t \in Threads :
        /\ pc[t] = "returned"
        /\ projectName \in Names
        /\ Len(projectName) = MaxNameLen

\* C2: any two calls of hello(), by the same or by different callers and
\* whatever happened in between, return equal values.
C2_SameValueEveryCall ==
    /\ Cardinality(returned) <= 1
    /\ \A t, u \in Threads :
           (result[t] # None /\ result[u] # None) => result[t] = result[u]

C2_Witness ==
    /\ started >= 3
    /\ shared # 0
    /\ \E t, u \in Threads :
           t # u /\ pc[t] = "returned" /\ pc[u] = "idle" /\ result[u] # None

\* C3: under every interleaving of the calls of the threads, a call that is
\* inside hello() can return at once whatever the other threads are doing,
\* and the value a caller holds is the whole constant greeting.
C3_ConcurrentCalls ==
    \A t \in Threads :
        /\ pc[t] = "called" => ENABLED Return(t)
        /\ result[t] # None =>
               /\ Len(result[t]) = Len(Prefix) + Len(projectName) + Len(Bang)
               /\ result[t] = hello

C3_Witness ==
    /\ \A t \in Threads : pc[t] = "called"
    /\ \E t \in Threads : result[t] # None

\* C4: a step by which a thread enters or leaves hello() changes nothing but
\* that thread's position and the variable receiving the value, and the
\* value received is the one every earlier call received, whatever the
\* shared variable holds.
C4_NoSideEffects ==
    [][\A t \in Threads :
          (pc'[t] # pc[t] /\ (pc[t] = "called" \/ pc'[t] = "called")) =>
              /\ UNCHANGED <<phase, file, projectName, shared,
                             testStatus, docStatus>>
              /\ \A u \in Threads \ {t} :
                     pc'[u] = pc[u] /\ result'[u] = result[u]
              /\ pc'[t] = "called" => result'[t] = result[t]
              /\ pc'[t] = "returned" =>
                     (returned = {} \/ result'[t] \in returned)]_vars

C4_Witness ==
    \E t, u \in Threads :
        /\ t # u
        /\ pc[t] = "returned"
        /\ shared = MaxVal
        /\ pc[u] = "called"
        /\ result[u] # None

\* C5: no call of hello() ends in an error state: a thread is idle, inside
\* hello() or back from it with a string value, for every project name.
C5_CannotFail ==
    /\ \A t \in Threads :
           /\ pc[t] \in {"idle", "called", "returned"}
           /\ pc[t] = "returned" => result[t] # None
    /\ None \notin returned

C5_Witness ==
    /\ projectName = <<>>
    /\ \A t \in Threads : result[t] # None

\* C6: the value returned by hello() is non-empty and starts with
\* "Hello from ", for every project name, the empty one included.
C6_NonEmptyWithPrefix ==
    \A t \in Threads :
        result[t] # None =>
            /\ Len(result[t]) > 0
            /\ IsPrefixOf(Prefix, result[t])

C6_Witness ==
    \E t \in Threads :
        /\ pc[t] = "returned"
        /\ projectName = <<>>
        /\ Len(result[t]) = Len(Prefix) + 1

\* C7: every call of hello() that has started eventually returns, provided
\* only that the calling thread itself keeps running: a thread inside
\* hello() needs no step of any other thread, so the call returns also when
\* the other threads stop for ever, inside hello() or outside.
C7_CallReturns ==
    \A t \in Threads :
        WF_vars(Return(t)) => ((pc[t] = "called") ~> (pc[t] = "returned"))

C7_Witness ==
    \E t, u \in Threads :
        t # u /\ pc[t] = "called" /\ pc[u] = "called" /\ started = 2

\* C8: the literal of hello(), the literal test_hello expects and the
\* literal of the doc example agree before and after the template is
\* instantiated, so the assertion of test_hello never fails.
C8_LiteralsAgree ==
    /\ file.hello = file.test
    /\ file.test = file.doc
    /\ testStatus \in {"notrun", "passed"}
    /\ docStatus # "failed"

C8_Witness ==
    /\ testStatus = "passed"
    /\ docStatus = "passed"
    /\ projectName \in Names

\* the same with the token left unresolved
C8_WitnessUnresolved ==
    /\ testStatus = "passed"
    /\ projectName = Token

====
